---- MODULE Spec2Model ----
(***************************************************************************)
(* Model of the financial-analysis engine of pipeline/financial_analyzer.py *)
(* (ROIC history, WACC components, WACC, spread) together with its          *)
(* per-ticker on-disk cache.  One ticker is modelled; the filing provider   *)
(* (edgar.entity.core.Company) is the environment.                          *)
(*                                                                          *)
(* Python floats are modelled as exact rationals [n, d] in lowest terms.    *)
(* Python Optional values are modelled as sequences of length 0 (None) or   *)
(* 1 (a value).  Time is counted in ticks, TicksPerDay ticks to the day.    *)
(***************************************************************************)
EXTENDS Integers, Sequences, FiniteSets, TLC

VARIABLES
    now,        \* datetime.now(), in ticks
    ticker,     \* the ticker the caller analyses: its filer profile and figures
    disk,       \* the ticker's cache file: None or the JSON record
    storedAt,   \* history variable: when each sub-result on disk was extracted
    ret         \* the last call made by the caller and what it got back

vars == <<now, ticker, disk, storedAt, ret>>

\* ------------------------------------------------------------------ bounds
TicksPerDay == 2
MaxDays == 130
MaxYears == 4

\* ------------------------------------------------------- Optional values
None == <<>>
Some(x) == <<x>>
IsNone(o) == Len(o) = 0
IsSome(o) == Len(o) = 1
Val(o) == o[1]

\* ------------------------------------------------------------- rationals
Abs(x) == IF x < 0 THEN -x ELSE x

RECURSIVE GCD(_, _)
GCD(a, b) == IF b = 0 THEN a ELSE GCD(b, a % b)

\* the float n/d (d # 0), in lowest terms with a positive denominator
Rat(n, d) ==
    LET g == GCD(Abs(n), Abs(d))
        s == IF d < 0 THEN -1 ELSE 1
    IN  [n |-> (s * n) \div g, d |-> (s * d) \div g]

RInt(k) == [n |-> k, d |-> 1]
RAdd(a, b) == Rat(a.n * b.d + b.n * a.d, a.d * b.d)
RSub(a, b) == Rat(a.n * b.d - b.n * a.d, a.d * b.d)
RMul(a, b) == Rat(a.n * b.n, a.d * b.d)
RDiv(a, b) == Rat(a.n * b.d, a.d * b.n)
RAbs(a) == [n |-> Abs(a.n), d |-> a.d]
RLt(a, b) == a.n * b.d < b.n * a.d
RLe(a, b) == a.n * b.d <= b.n * a.d
RMax(a, b) == IF RLt(a, b) THEN b ELSE a

\* ------------------------------------------------------ module constants
DEFAULT_RISK_FREE_RATE == Rat(40, 1000)
DEFAULT_MARKET_RISK_PREMIUM == Rat(55, 1000)
DEFAULT_BETA == RInt(1)
DEFAULT_TAX_RATE == Rat(21, 100)
MAX_TAX_RATE == Rat(5, 10)
DEFAULT_COST_OF_DEBT == Rat(5, 100)
MAX_COST_OF_DEBT == Rat(20, 100)
SENSITIVITY_STEP == Rat(1, 100)
CACHE_DAYS == 90
MIN_YEARS == 3

\* --------------------------------------------------- XBRL concept names
\* a concept name is an optional namespace, a separator and a local name
Plain(l) == [ns |-> "", sep |-> "", local |-> l]
Gaap(l) == [ns |-> "us-gaap", sep |-> ":", local |-> l]
GaapU(l) == [ns |-> "us-gaap", sep |-> "_", local |-> l]

\* concept.replace(':', '_')
NormalizeConcept(c) == IF c.sep = ":" THEN [c EXCEPT !.sep = "_"] ELSE c

\* the candidate lists of the call sites: the plain and the prefixed name of
\* each local name, in order
Candidates(locals) ==
    LET RECURSIVE Build(_)
        Build(i) == IF i > Len(locals) THEN <<>>
                    ELSE <<Plain(locals[i]), Gaap(locals[i])>> \o Build(i + 1)
    IN  Build(1)

PRETAX == "IncomeLossFromContinuingOperationsBeforeIncomeTaxesExtraordinaryItemsNoncontrollingInterest"

OperatingIncomeConcepts == Candidates(<<"OperatingIncomeLoss", PRETAX>>)
IncomeTaxConcepts == Candidates(<<"IncomeTaxExpenseBenefit">>)
PretaxConcepts == Candidates(<<PRETAX>>)
AssetsConcepts == Candidates(<<"Assets">>)
CashConcepts == Candidates(<<"CashAndCashEquivalentsAtCarryingValue", "Cash">>)
CurrentLiabilitiesConcepts == Candidates(<<"LiabilitiesCurrent">>)
RoicShortTermDebtConcepts == Candidates(<<"ShortTermBorrowings", "DebtCurrent">>)
WaccShortTermDebtConcepts == Candidates(<<"DebtCurrent", "ShortTermBorrowings">>)
LongTermDebtConcepts == Candidates(<<"LongTermDebt", "LongTermDebtNoncurrent">>)
InterestConcepts == Candidates(<<"InterestExpense", "InterestExpenseDebt">>)
EquityConcepts ==
    Candidates(<<"StockholdersEquity",
                 "StockholdersEquityIncludingPortionAttributableToNoncontrollingInterest">>)

\* ------------------------------------------------------ extract_xbrl_value
\* A statement is None or a dataframe [layout, rows]; a row is
\* [concept, vals], vals the cells of the period columns: None (NaN), a
\* number, or Text.  layout "concept_col": the concept is a column; "index":
\* the concept is the index (its labels unique); "nodf": to_dataframe is
\* absent or returns None.

\* a cell holding a string that float() rejects
Text == <<"n", "a">>

RECURSIVE FirstNumeric(_, _)
FirstNumeric(vals, i) ==
    IF i > Len(vals) THEN None
    ELSE IF IsSome(vals[i]) THEN vals[i]
    ELSE FirstNumeric(vals, i + 1)

\* values.dropna().iloc[-1]: the last cell that is not NaN, None if there is none
RECURSIVE LastNotNa(_, _)
LastNotNa(vals, i) ==
    IF i < 1 THEN None
    ELSE IF ~IsNone(vals[i]) THEN vals[i]
    ELSE LastNotNa(vals, i - 1)

RowsFor(df, c) == SelectSeq(df.rows, LAMBDA r : r.concept = c)

RECURSIVE TryConcepts(_, _, _)
TryConcepts(df, concepts, i) ==
    IF i > Len(concepts) THEN None
    ELSE IF df.layout = "concept_col"
    THEN LET match == RowsFor(df, NormalizeConcept(concepts[i]))
             found == IF Len(match) = 0 THEN None
                      ELSE FirstNumeric(match[1].vals, 1)
         IN  IF IsSome(found) THEN found
             ELSE TryConcepts(df, concepts, i + 1)
    ELSE LET match == RowsFor(df, concepts[i])
             last == IF Len(match) = 0 THEN None
                     ELSE LastNotNa(match[1].vals, Len(match[1].vals))
         IN  IF IsNone(last) THEN TryConcepts(df, concepts, i + 1)
             ELSE IF last = Text THEN None   \* float() raises: `except Exception`
             ELSE last

extract_xbrl_value(statement, concepts) ==
    IF IsNone(statement) THEN None
    ELSE LET df == Val(statement)
         IN  IF df.layout = "nodf" \/ Len(df.rows) = 0 THEN None
             ELSE TryConcepts(df, concepts, 1)

\* Python's `x or 0` on an Optional number
OrZero(o) == IF IsNone(o) THEN 0 ELSE Val(o)

\* Python truthiness of an Optional number: None and 0 are false
Truthy(o) == IsSome(o) /\ Val(o) # 0

\* ------------------------------------------------------------ cache layer
TICKER == "TICK"

\* datetime.isoformat / datetime.fromisoformat: a date part and a time part
isoformat(t) == [date |-> t \div TicksPerDay, time |-> t % TicksPerDay]
fromisoformat(s) == s.date * TicksPerDay + s.time

\* the default of data.get('cache_date', '2000-01-01'): long before any `now`
Y2K == [date |-> 0 - 9000, time |-> 0]

\* the dict {}: no key present
EmptyDict ==
    [cache_date |-> None, ticker |-> None, roic_history |-> None,
     wacc_components |-> None, spread_result |-> None]

\* (datetime.now() - cache_date).days
DaysOld(data, t) ==
    LET cache_date == fromisoformat(IF IsSome(data.cache_date)
                                    THEN Val(data.cache_date) ELSE Y2K)
    IN  (t - cache_date) \div TicksPerDay

IsRecent(days_old) == days_old < CACHE_DAYS

\* the file a json.dump that failed midway leaves behind: json.load rejects it
Truncated == [truncated |-> TRUE]
JsonLoadRaises(content) == "truncated" \in DOMAIN content

\* a cache_date that datetime.fromisoformat rejects
BadDate == [text |-> "not-a-date"]
FromIsoformatRaises(cache_date) == IsSome(cache_date) /\ "date" \notin DOMAIN Val(cache_date)

load_from_cache(d, t) ==
    IF IsNone(d) THEN None
    ELSE IF JsonLoadRaises(Val(d)) THEN None
    ELSE IF FromIsoformatRaises(Val(d).cache_date) THEN None
    ELSE IF IsRecent(DaysOld(Val(d), t)) THEN d
    ELSE None

\* the step of save_to_cache the file system fails: creating the data
\* directory, opening the file, writing the JSON, or none
Faults == {"none", "mkdir", "open", "write"}

\* the step that fails in a save over the file d, "" if none: the data
\* directory exists once a cache file does, and mkdir(exist_ok=True) then succeeds
FailingStep(d, fault) ==
    IF fault = "none" \/ (fault = "mkdir" /\ IsSome(d)) THEN "" ELSE fault

\* result: whether save_to_cache raised, the step that failed, the file afterwards
save_to_cache(d, data, t, fault) ==
    LET Save(step) ==
            IF step = "mkdir" THEN [raised |-> TRUE, failed |-> step, disk |-> d]
            ELSE IF step = "open" THEN [raised |-> FALSE, failed |-> step, disk |-> d]
            ELSE IF step = "write"
            THEN [raised |-> FALSE, failed |-> step, disk |-> Some(Truncated)]
            ELSE [raised |-> FALSE, failed |-> "",
                  disk |-> Some([data EXCEPT !.cache_date = Some(isoformat(t)),
                                             !.ticker = Some(TICKER)])]
    IN  Save(FailingStep(d, fault))

\* mutant of OrEmpty: the record read is dropped
OrEmpty_Clobber(cache) == EmptyDict

\* `cache or {}`
OrEmpty(cache) == IF IsSome(cache) THEN Val(cache) ELSE EmptyDict

\* ------------------------------------------------------ the filing provider
\* company = [exists, filings]; filings are the 10-K filings, most recent
\* first; a filing is [year, financials], financials None or
\* [income, balance], each a statement.

\* Company(ticker): raises for an unknown ticker
CompanyLookupFails(co) == ~co.exists

Min(a, b) == IF a < b THEN a ELSE b

\* company.get_filings(form='10-K').latest(years)
latest(co, years) == SubSeq(co.filings, 1, Min(years, Len(co.filings)))

\* company.latest_tenk
latest_tenk(co) == IF Len(co.filings) = 0 THEN None ELSE Some(co.filings[1])

\* ------------------------------------------------------ extract_roic_history
RoicTaxRate(income_stmt) ==
    LET Bounded(tax_rate) ==
            IF RLt(tax_rate, RInt(0)) \/ RLt(MAX_TAX_RATE, tax_rate)
            THEN DEFAULT_TAX_RATE
            ELSE tax_rate
        Rate(income_tax_expense, income_before_tax) ==
            IF Truthy(income_tax_expense) /\ Truthy(income_before_tax)
            THEN Bounded(RAbs(Rat(Val(income_tax_expense), Val(income_before_tax))))
            ELSE DEFAULT_TAX_RATE
    IN  Rate(extract_xbrl_value(income_stmt, IncomeTaxConcepts),
             extract_xbrl_value(income_stmt, PretaxConcepts))

InvestedCapital(balance_sheet) ==
    LET NonInterest(diff) == IF diff > 0 THEN diff ELSE 0
        Capital(total_assets, cash, current_liabilities, short_term_debt) ==
            IF IsNone(total_assets) THEN None
            ELSE Some(Val(total_assets) - cash
                      - NonInterest(current_liabilities - short_term_debt))
    IN  Capital(extract_xbrl_value(balance_sheet, AssetsConcepts),
                OrZero(extract_xbrl_value(balance_sheet, CashConcepts)),
                OrZero(extract_xbrl_value(balance_sheet, CurrentLiabilitiesConcepts)),
                OrZero(extract_xbrl_value(balance_sheet, RoicShortTermDebtConcepts)))

\* filing.obj() raises for this filing
ObjRaises(filing) == "raises" \in DOMAIN filing

\* the body of the loop over filings: None when the filing is skipped,
\* else the year's record
ProcessFiling(filing) ==
    LET Record(invested_capital, nopat) ==
            Some([year |-> filing.year,
                  roic |-> RDiv(nopat, RInt(invested_capital)),
                  nopat |-> nopat,
                  invested_capital |-> invested_capital])
        Compute(income_stmt, operating_income, invested_capital) ==
            IF IsNone(operating_income) THEN None
            ELSE IF IsNone(invested_capital) THEN None
            ELSE IF Val(invested_capital) <= 0 THEN None
            ELSE Record(Val(invested_capital),
                        RMul(RInt(Val(operating_income)),
                             RSub(RInt(1), RoicTaxRate(income_stmt))))
        Statements(income_stmt, balance_sheet) ==
            IF IsNone(income_stmt) \/ IsNone(balance_sheet) THEN None
            ELSE Compute(income_stmt,
                         extract_xbrl_value(income_stmt, OperatingIncomeConcepts),
                         InvestedCapital(balance_sheet))
    IN  IF ObjRaises(filing) THEN None         \* `except Exception`: continue
        ELSE IF IsNone(filing.financials) THEN None
        ELSE Statements(Val(filing.financials).income, Val(filing.financials).balance)

\* mutant of ProcessFilings: the loop ends at the first filing it cannot use
RECURSIVE ProcessFilings_StopAtSkip(_, _)
ProcessFilings_StopAtSkip(filings, i) ==
    IF i > Len(filings) THEN <<>>
    ELSE IF IsNone(ProcessFiling(filings[i])) THEN <<>>
    ELSE ProcessFiling(filings[i]) \o ProcessFilings_StopAtSkip(filings, i + 1)

RECURSIVE ProcessFilings(_, _)
ProcessFilings(filings, i) ==
    IF i > Len(filings) THEN <<>>
    ELSE ProcessFiling(filings[i]) \o ProcessFilings(filings, i + 1)

\* tuple order of (year, roic, nopat, invested_capital)
RecLt(a, b) ==
    \/ a.year < b.year
    \/ a.year = b.year /\ RLt(a.roic, b.roic)
    \/ a.year = b.year /\ a.roic = b.roic /\ RLt(a.nopat, b.nopat)
    \/ a.year = b.year /\ a.roic = b.roic /\ a.nopat = b.nopat
       /\ a.invested_capital < b.invested_capital

RECURSIVE Insert(_, _)
Insert(r, s) ==
    IF Len(s) = 0 THEN <<r>>
    ELSE IF RecLt(r, s[1]) THEN <<r>> \o s
    ELSE <<s[1]>> \o Insert(r, Tail(s))

\* mutant of Sorted: the records stay in filing order
Sorted_FilingOrder(s) == s

RECURSIVE Sorted(_)
Sorted(s) == IF Len(s) = 0 THEN <<>> ELSE Insert(s[1], Sorted(Tail(s)))

\* ROICData built from the sorted records
MakeROICData(recs) ==
    [years |-> [i \in 1..Len(recs) |-> recs[i].year],
     roic_values |-> [i \in 1..Len(recs) |-> recs[i].roic],
     nopat_values |-> [i \in 1..Len(recs) |-> recs[i].nopat],
     invested_capital_values |-> [i \in 1..Len(recs) |-> recs[i].invested_capital]]

\* the try block: what it raises ("" when it returns) and the records
RoicTry(co, years) ==
    LET Loop(filings, recs) ==
            IF Len(filings) = 0
            THEN [raised |-> "InsufficientDataError", recs |-> <<>>]
            ELSE IF Len(recs) < MIN_YEARS
            THEN [raised |-> "InsufficientDataError", recs |-> recs]
            ELSE [raised |-> "", recs |-> Sorted(recs)]
        Filings(filings) == Loop(filings, ProcessFilings(filings, 1))
    IN  IF CompanyLookupFails(co) THEN [raised |-> "Exception", recs |-> <<>>]
        ELSE Filings(latest(co, years))

\* mutants of RoicExcept: the re-raise of InsufficientDataError is lost; the
\* generic handler raises the wrong class
RoicExcept_Generic(raised) == "FinancialDataError"
RoicExcept_Insufficient(raised) == "InsufficientDataError"

\* the except clauses of extract_roic_history
RoicExcept(raised) ==
    IF raised = "InsufficientDataError" THEN "InsufficientDataError"
    ELSE "FinancialDataError"

\* the cache check at the head of extract_roic_history
RoicCacheHit(cache) == IsSome(cache) /\ IsSome(Val(cache).roic_history)

\* the keys ROICData(...) reads from the cached dict
RoicFields == {"years", "roic_values", "nopat_values", "invested_capital_values"}

\* ROICData built from the cached dict: None when a key is missing (KeyError)
RoicFromCache(cached_roic) ==
    IF RoicFields \subseteq DOMAIN cached_roic
    THEN Some([years |-> cached_roic.years,
               roic_values |-> cached_roic.roic_values,
               nopat_values |-> cached_roic.nopat_values,
               invested_capital_values |-> cached_roic.invested_capital_values])
    ELSE None

\* result: status ("ok" or the error raised), the value returned, the disk
\* afterwards, whether the value came from the cache, and the step of
\* save_to_cache that failed ("" if none)
extract_roic_history(d, t, co, years, fault) ==
    LET Saved(result, w) ==
            IF w.raised
            THEN [status |-> RoicExcept("OSError"), value |-> None,
                  disk |-> w.disk, cached |-> FALSE, failed |-> w.failed]
            ELSE [status |-> "ok", value |-> Some(result),
                  disk |-> w.disk, cached |-> FALSE, failed |-> w.failed]
        Store(cache, result) ==
            Saved(result,
                  save_to_cache(d, [OrEmpty(cache) EXCEPT !.roic_history = Some(result)],
                                t, fault))
        Extract(cache, try) ==
            IF try.raised # ""
            THEN [status |-> RoicExcept(try.raised), value |-> None,
                  disk |-> d, cached |-> FALSE, failed |-> ""]
            ELSE Store(cache, MakeROICData(try.recs))
        Hit(roic_data) ==
            IF IsNone(roic_data)
            THEN [status |-> "KeyError", value |-> None,
                  disk |-> d, cached |-> FALSE, failed |-> ""]
            ELSE [status |-> "ok", value |-> roic_data,
                  disk |-> d, cached |-> TRUE, failed |-> ""]
        Check(cache) ==
            IF RoicCacheHit(cache)
            THEN Hit(RoicFromCache(Val(Val(cache).roic_history)))
            ELSE Extract(cache, RoicTry(co, years))
    IN  Check(load_from_cache(d, t))

\* --------------------------------------------------- extract_wacc_components
TotalDebt(balance_sheet) ==
    OrZero(extract_xbrl_value(balance_sheet, WaccShortTermDebtConcepts))
    + OrZero(extract_xbrl_value(balance_sheet, LongTermDebtConcepts))

\* mutant of CostOfDebt: an out-of-range ratio is clamped to the range boundary
CostOfDebt_ClampToBound(income_stmt, total_debt) ==
    LET Bounded(cost_of_debt) ==
            IF RLt(MAX_COST_OF_DEBT, cost_of_debt)
            THEN MAX_COST_OF_DEBT
            ELSE cost_of_debt
        Cost(interest_expense) ==
            IF Truthy(interest_expense) /\ total_debt > 0
            THEN Bounded(Rat(Abs(Val(interest_expense)), total_debt))
            ELSE DEFAULT_COST_OF_DEBT
    IN  Cost(extract_xbrl_value(income_stmt, InterestConcepts))

CostOfDebt(income_stmt, total_debt) ==
    LET Bounded(cost_of_debt) ==
            IF RLt(cost_of_debt, RInt(0)) \/ RLt(MAX_COST_OF_DEBT, cost_of_debt)
            THEN DEFAULT_COST_OF_DEBT
            ELSE cost_of_debt
        Cost(interest_expense) ==
            IF Truthy(interest_expense) /\ total_debt > 0
            THEN Bounded(Rat(Abs(Val(interest_expense)), total_debt))
            ELSE DEFAULT_COST_OF_DEBT
    IN  Cost(extract_xbrl_value(income_stmt, InterestConcepts))

WaccTaxRate(income_stmt) ==
    LET Bounded(tax_rate) ==
            IF RLt(tax_rate, RInt(0)) \/ RLt(MAX_TAX_RATE, tax_rate)
            THEN DEFAULT_TAX_RATE
            ELSE tax_rate
        Rate(income_tax_expense, income_before_tax) ==
            IF Truthy(income_tax_expense) /\ Truthy(income_before_tax)
            THEN Bounded(RAbs(Rat(Val(income_tax_expense), Val(income_before_tax))))
            ELSE DEFAULT_TAX_RATE
    IN  Rate(extract_xbrl_value(income_stmt, IncomeTaxConcepts),
             extract_xbrl_value(income_stmt, PretaxConcepts))

\* mutant of DebtRatio: debt over equity instead of debt over capital
DebtRatio_OverEquity(total_equity, total_debt) == Rat(total_debt, total_equity)

EquityRatio(total_equity, total_debt) == Rat(total_equity, total_equity + total_debt)
DebtRatio(total_equity, total_debt) == Rat(total_debt, total_equity + total_debt)

\* `x if x is not None else DEFAULT`
OrDefault(o, default) == IF IsSome(o) THEN Val(o) ELSE default

\* CAPM
CostOfEquity(rf, b, mrp) == RAdd(rf, RMul(b, mrp))

\* the WACCComponents built at the end of the try block
MakeComponents(income_stmt, total_equity, total_debt, risk_free_rate, market_risk_premium, beta) ==
    LET Build(rf, mrp, b) ==
            [cost_of_equity |-> CostOfEquity(rf, b, mrp),
             cost_of_debt |-> CostOfDebt(income_stmt, total_debt),
             tax_rate |-> WaccTaxRate(income_stmt),
             debt_ratio |-> DebtRatio(total_equity, total_debt),
             equity_ratio |-> EquityRatio(total_equity, total_debt),
             total_debt |-> RInt(total_debt),
             total_equity |-> RInt(total_equity),
             risk_free_rate |-> rf,
             beta |-> b,
             market_risk_premium |-> mrp]
    IN  Build(OrDefault(risk_free_rate, DEFAULT_RISK_FREE_RATE),
              OrDefault(market_risk_premium, DEFAULT_MARKET_RISK_PREMIUM),
              OrDefault(beta, DEFAULT_BETA))

\* mutant of InvalidEquity: only a missing equity is rejected
InvalidEquity_MissingOnly(stockholders_equity) == IsNone(stockholders_equity)

\* stockholders_equity is None or stockholders_equity <= 0
InvalidEquity(stockholders_equity) ==
    IsNone(stockholders_equity) \/ Val(stockholders_equity) <= 0

\* the try block: what it raises ("" when it returns) and the components
WaccTry(co, risk_free_rate, market_risk_premium, beta) ==
    LET Failed == [raised |-> "FinancialDataError", value |-> None]
        Capital(income_stmt, total_equity, total_debt) ==
            IF total_equity + total_debt <= 0 THEN Failed
            ELSE [raised |-> "",
                  value |-> Some(MakeComponents(income_stmt, total_equity, total_debt,
                                                risk_free_rate, market_risk_premium, beta))]
        Equity(income_stmt, total_debt, stockholders_equity) ==
            IF InvalidEquity(stockholders_equity) THEN Failed
            ELSE Capital(income_stmt, Val(stockholders_equity), total_debt)
        Statements(income_stmt, balance_sheet) ==
            IF IsNone(income_stmt) \/ IsNone(balance_sheet) THEN Failed
            ELSE Equity(income_stmt, TotalDebt(balance_sheet),
                        extract_xbrl_value(balance_sheet, EquityConcepts))
        Financials(financials) ==
            IF IsNone(financials) THEN Failed
            ELSE Statements(Val(financials).income, Val(financials).balance)
        Latest(latest_10k) ==
            IF IsNone(latest_10k) THEN Failed
            ELSE Financials(Val(latest_10k).financials)
    IN  IF CompanyLookupFails(co) THEN [raised |-> "Exception", value |-> None]
        ELSE Latest(latest_tenk(co))

\* the except clauses of extract_wacc_components
WaccExcept(raised) == "FinancialDataError"

\* the cache check at the head of extract_wacc_components
WaccCacheHit(cache) == IsSome(cache) /\ IsSome(Val(cache).wacc_components)

\* the fields of WACCComponents
WaccFields ==
    {"cost_of_equity", "cost_of_debt", "tax_rate", "debt_ratio", "equity_ratio",
     "total_debt", "total_equity", "risk_free_rate", "beta", "market_risk_premium"}

\* WACCComponents(**cached_wacc): None when the keys are not the fields (TypeError)
WaccFromCache(cached_wacc) ==
    IF DOMAIN cached_wacc = WaccFields THEN Some(cached_wacc) ELSE None

extract_wacc_components(d, t, co, risk_free_rate, market_risk_premium, beta, fault) ==
    LET Saved(result, w) ==
            IF w.raised
            THEN [status |-> WaccExcept("OSError"), value |-> None,
                  disk |-> w.disk, cached |-> FALSE, failed |-> w.failed]
            ELSE [status |-> "ok", value |-> result,
                  disk |-> w.disk, cached |-> FALSE, failed |-> w.failed]
        Extract(cache, try) ==
            IF try.raised # ""
            THEN [status |-> WaccExcept(try.raised), value |-> None,
                  disk |-> d, cached |-> FALSE, failed |-> ""]
            ELSE Saved(try.value,
                       save_to_cache(d, [OrEmpty(cache) EXCEPT
                                            !.wacc_components = try.value], t, fault))
        Hit(components) ==
            IF IsNone(components)
            THEN [status |-> "TypeError", value |-> None,
                  disk |-> d, cached |-> FALSE, failed |-> ""]
            ELSE [status |-> "ok", value |-> components,
                  disk |-> d, cached |-> TRUE, failed |-> ""]
        Check(cache) ==
            IF WaccCacheHit(cache)
            THEN Hit(WaccFromCache(Val(Val(cache).wacc_components)))
            ELSE Extract(cache, WaccTry(co, risk_free_rate, market_risk_premium, beta))
    IN  Check(load_from_cache(d, t))

\* ------------------------------------------------------------ calculate_wacc
\* overrides is [risk_free_rate, market_risk_premium, beta], each Optional
\* (overrides.get(key) is None for an absent key)
NoOverrides == [risk_free_rate |-> None, market_risk_premium |-> None, beta |-> None]

\* the WACC of components with the cost of equity re
Wacc(components, re) ==
    RAdd(RMul(components.equity_ratio, re),
         RMul(RMul(components.debt_ratio, components.cost_of_debt),
              RSub(RInt(1), components.tax_rate)))

\* mutant of BaselineWacc: the tax shield on debt is left out
BaselineWacc_NoTaxShield(components) ==
    RAdd(RMul(components.equity_ratio, components.cost_of_equity),
         RMul(components.debt_ratio, components.cost_of_debt))

BaselineWacc(components) == Wacc(components, components.cost_of_equity)

PessimisticWacc(components) ==
    LET pessimistic_rf == RAdd(components.risk_free_rate, SENSITIVITY_STEP)
        pessimistic_re == RAdd(pessimistic_rf,
                               RMul(components.beta, components.market_risk_premium))
    IN  Wacc(components, pessimistic_re)

OptimisticWacc(components) ==
    LET optimistic_rf == RMax(RInt(0), RSub(components.risk_free_rate, SENSITIVITY_STEP))
        optimistic_re == RAdd(optimistic_rf,
                              RMul(components.beta, components.market_risk_premium))
    IN  Wacc(components, optimistic_re)

\* mutant of Scenarios: the sensitivity scenarios are always computed
Scenarios_AlwaysAll(components, sensitivity) ==
    [base |-> Some(BaselineWacc(components)),
     pessimistic |-> Some(PessimisticWacc(components)),
     optimistic |-> Some(OptimisticWacc(components))]

\* the scenarios dict: a key that is absent is None
Scenarios(components, sensitivity) ==
    [base |-> Some(BaselineWacc(components)),
     pessimistic |-> IF sensitivity THEN Some(PessimisticWacc(components)) ELSE None,
     optimistic |-> IF sensitivity THEN Some(OptimisticWacc(components)) ELSE None]

MakeWACCResult(components, sensitivity) ==
    [baseline_wacc |-> BaselineWacc(components),
     scenarios |-> Scenarios(components, sensitivity),
     components_breakdown |-> components]

calculate_wacc(d, t, co, overrides, sensitivity, fault) ==
    LET Result(c) ==
            IF c.status # "ok"
            THEN [status |-> "FinancialDataError", value |-> None,
                  disk |-> c.disk, cached |-> FALSE, failed |-> c.failed]
            ELSE [status |-> "ok",
                  value |-> Some(MakeWACCResult(Val(c.value), sensitivity)),
                  disk |-> c.disk, cached |-> c.cached, failed |-> c.failed]
    IN  Result(extract_wacc_components(d, t, co, overrides.risk_free_rate,
                                       overrides.market_risk_premium, overrides.beta,
                                       fault))

\* ---------------------------------------------------------- calculate_spread
TREND_THRESHOLD == Rat(2, 100)
STRONG_SPREAD == Rat(5, 100)
WEAK_SPREAD == Rat(3, 100)

SpreadHistory(roic_values, baseline_wacc) ==
    [i \in 1..Len(roic_values) |-> RSub(roic_values[i], baseline_wacc)]

\* mutant of CurrentSpread: the oldest spread instead of the latest
CurrentSpread_Oldest(spread_history) ==
    IF Len(spread_history) > 0 THEN spread_history[1] ELSE RInt(0)

CurrentSpread(spread_history) ==
    IF Len(spread_history) > 0 THEN spread_history[Len(spread_history)] ELSE RInt(0)

\* mutant of SpreadTrend: a slope equal to the threshold already counts
SpreadTrend_AtLeast(spread_history) ==
    IF Len(spread_history) >= 3
    THEN LET n == Len(spread_history)
             slope == RDiv(RSub(spread_history[n], spread_history[n - 2]), RInt(2))
         IN  IF RLe(TREND_THRESHOLD, slope) THEN "improving"
             ELSE IF RLe(slope, RSub(RInt(0), TREND_THRESHOLD)) THEN "deteriorating"
             ELSE "stable"
    ELSE "stable"

SpreadTrend(spread_history) ==
    IF Len(spread_history) >= 3
    THEN LET n == Len(spread_history)
             slope == RDiv(RSub(spread_history[n], spread_history[n - 2]), RInt(2))
         IN  IF RLt(TREND_THRESHOLD, slope) THEN "improving"
             ELSE IF RLt(slope, RSub(RInt(0), TREND_THRESHOLD)) THEN "deteriorating"
             ELSE "stable"
    ELSE "stable"

\* mutant of Durability: an improving trend alone is strong
Durability_ImprovingIsStrong(current_spread, spread_trend) ==
    IF spread_trend = "improving" THEN "strong"
    ELSE IF \/ RLt(current_spread, RInt(0))
            \/ spread_trend = "deteriorating" /\ RLt(current_spread, WEAK_SPREAD)
    THEN "weak"
    ELSE "uncertain"

\* mutant of Durability: a negative spread alone is not weak
Durability_NoNegativeRule(current_spread, spread_trend) ==
    IF RLt(STRONG_SPREAD, current_spread) /\ spread_trend = "improving" THEN "strong"
    ELSE IF spread_trend = "deteriorating" /\ RLt(current_spread, WEAK_SPREAD)
    THEN "weak"
    ELSE "uncertain"

Durability(current_spread, spread_trend) ==
    IF RLt(STRONG_SPREAD, current_spread) /\ spread_trend = "improving" THEN "strong"
    ELSE IF \/ RLt(current_spread, RInt(0))
            \/ spread_trend = "deteriorating" /\ RLt(current_spread, WEAK_SPREAD)
    THEN "weak"
    ELSE "uncertain"

MakeSpreadResult(roic_data, wacc_result) ==
    LET Build(spread_history, current_spread, spread_trend) ==
            [current_spread |-> current_spread,
             spread_history |-> spread_history,
             years |-> roic_data.years,
             spread_trend |-> spread_trend,
             durability_assessment |-> Durability(current_spread, spread_trend),
             roic_data |-> roic_data,
             wacc_result |-> wacc_result]
        History(spread_history) ==
            Build(spread_history, CurrentSpread(spread_history),
                  SpreadTrend(spread_history))
    IN  History(SpreadHistory(roic_data.roic_values, wacc_result.baseline_wacc))

\* the first step of save_to_cache that failed in a call, "" if none
FirstFailed(a, b) == IF a # "" THEN a ELSE b

\* result: as for the extractors, with the two sub-calls' outcomes (r, w); the
\* clock reads t_roic in extract_roic_history, t_wacc in calculate_wacc and
\* t_spread at the reload and save of the spread result
calculate_spread_timed(d, t_roic, t_wacc, t_spread, co, years, fault) ==
    LET Saved(r, w, result, sv) ==
            [status |-> IF sv.raised THEN "FinancialDataError" ELSE "ok",
             value |-> IF sv.raised THEN None ELSE Some(result),
             disk |-> sv.disk,
             roic_called |-> TRUE, roic_cached |-> r.cached,
             wacc_called |-> TRUE, wacc_cached |-> w.cached,
             failed |-> FirstFailed(r.failed, FirstFailed(w.failed, sv.failed))]
        Store(r, w, result) ==
            Saved(r, w, result,
                  save_to_cache(w.disk,
                                [OrEmpty(load_from_cache(w.disk, t_spread))
                                    EXCEPT !.spread_result = Some(result)], t_spread, fault))
        WithWacc(r, w) ==
            IF w.status # "ok"
            THEN [status |-> "FinancialDataError", value |-> None, disk |-> w.disk,
                  roic_called |-> TRUE, roic_cached |-> r.cached,
                  wacc_called |-> TRUE, wacc_cached |-> FALSE,
                  failed |-> FirstFailed(r.failed, w.failed)]
            ELSE Store(r, w, MakeSpreadResult(Val(r.value), Val(w.value)))
        WithRoic(r) ==
            IF r.status # "ok"
            THEN [status |-> "FinancialDataError", value |-> None, disk |-> r.disk,
                  roic_called |-> TRUE, roic_cached |-> FALSE,
                  wacc_called |-> FALSE, wacc_cached |-> FALSE,
                  failed |-> r.failed]
            ELSE WithWacc(r, calculate_wacc(r.disk, t_wacc, co, NoOverrides, TRUE, fault))
    IN  WithRoic(extract_roic_history(d, t_roic, co, years, fault))

\* a call during which the clock does not move
calculate_spread(d, t, co, years, fault) ==
    calculate_spread_timed(d, t, t, t, co, years, fault)

\* ------------------------------------------------------------------ inputs
\* the name a filer's dataframe uses for a local name, by layout
NameIn(layout, local) == IF layout = "concept_col" THEN GaapU(local) ELSE Plain(local)

\* one row of a single-period statement; no row when the value is missing
Row(layout, local, v) ==
    IF IsNone(v) THEN <<>>
    ELSE <<[concept |-> NameIn(layout, local), vals |-> <<v>>]>>

IncomeStatement(layout, oi, tax, pretax, interest) ==
    Some([layout |-> layout,
          rows |-> Row(layout, "OperatingIncomeLoss", oi)
                   \o Row(layout, "IncomeTaxExpenseBenefit", tax)
                   \o Row(layout, PRETAX, pretax)
                   \o Row(layout, "InterestExpense", interest)])

BalanceSheet(layout, assets, cash, liab, std, ltd, equity) ==
    Some([layout |-> layout,
          rows |-> Row(layout, "Assets", assets)
                   \o Row(layout, "CashAndCashEquivalentsAtCarryingValue", cash)
                   \o Row(layout, "LiabilitiesCurrent", liab)
                   \o Row(layout, "DebtCurrent", std)
                   \o Row(layout, "LongTermDebt", ltd)
                   \o Row(layout, "StockholdersEquity", equity)])

Filing(year, income, balance) ==
    [year |-> year, financials |-> Some([income |-> income, balance |-> balance])]

NoFinancials(year) == [year |-> year, financials |-> None]

\* a filing whose document cannot be loaded
Broken(year) == [year |-> year, financials |-> None, raises |-> TRUE]

\* the figures a filer reports (None: not reported) and its dataframe layout
StdFigures ==
    [tax |-> Some(5), pretax |-> Some(25), interest |-> Some(1), std |-> Some(5),
     ltd |-> Some(15), equity |-> Some(40), layout |-> "concept_col"]

\* a filing reporting the figures; operating income grows with the year
Reported(year, fig) ==
    Filing(year,
           IncomeStatement(fig.layout, Some(year - 2000), fig.tax, fig.pretax,
                           fig.interest),
           BalanceSheet(fig.layout, Some(100), Some(10), Some(20), fig.std, fig.ltd,
                        fig.equity))

\* a filing of a filer that pays half its pretax income in tax, has invested
\* capital 50 and is financed by equity 40 and long-term debt 40: its ROIC is
\* oi / 100 and its WACC 0.06
SeriesFiling(year, oi) ==
    Filing(year,
           IncomeStatement("index", Some(oi), Some(5), Some(10), None),
           BalanceSheet("index", Some(60), Some(10), None, None, Some(40), Some(40)))

\* a filing of one kind: usable, or failing one of the checks of the loop
FilingKinds ==
    {"ok", "nofin", "noincome", "nobalance", "no_oi", "no_assets", "badcap", "raises"}

FilingOfKind(year, kind, fig) ==
    CASE kind = "nofin" -> NoFinancials(year)
      [] kind = "noincome" -> [Reported(year, fig) EXCEPT !.financials[1].income = None]
      [] kind = "nobalance" -> [Reported(year, fig) EXCEPT !.financials[1].balance = None]
      [] kind = "no_oi" ->
            [Reported(year, fig) EXCEPT !.financials[1].income =
                IncomeStatement(fig.layout, None, fig.tax, None, fig.interest)]
      [] kind = "no_assets" ->
            [Reported(year, fig) EXCEPT !.financials[1].balance =
                BalanceSheet(fig.layout, None, Some(10), Some(20), fig.std, fig.ltd,
                             fig.equity)]
      [] kind = "badcap" ->
            [Reported(year, fig) EXCEPT !.financials[1].balance =
                BalanceSheet(fig.layout, Some(20), Some(10), Some(20), fig.std, fig.ltd,
                             fig.equity)]
      [] kind = "raises" -> Broken(year)
      [] OTHER -> Reported(year, fig)

\* the filings of a ticker, most recent first, by filer profile
FilingsOf(t) ==
    LET fig == t.fig
        older == <<Reported(2022, fig), Reported(2021, fig), Reported(2020, fig)>>
    IN  CASE t.profile = "none" -> <<>>
          [] t.profile = "thin" -> <<Reported(2023, fig), Reported(2022, fig)>>
          [] t.profile = "same3" ->
                <<Reported(2023, fig), Reported(2022, fig), Reported(2021, fig)>>
          [] t.profile = "full" -> <<Reported(2023, fig)>> \o older
                                   \o <<Reported(2019, fig)>>
          [] t.profile = "holes" ->
                <<Reported(2023, fig), NoFinancials(2022), Reported(2021, fig),
                  Reported(2020, fig)>>
          [] t.profile = "skipped" ->
                <<NoFinancials(2023), NoFinancials(2022), NoFinancials(2021)>>
          [] t.profile = "nofin" -> <<NoFinancials(2023)>> \o older
          [] t.profile = "noincome" ->
                <<[Reported(2023, fig) EXCEPT !.financials[1].income = None]>> \o older
          [] t.profile = "nobalance" ->
                <<[Reported(2023, fig) EXCEPT !.financials[1].balance = None]>> \o older
          [] t.profile = "badcap" ->
                <<Reported(2023, fig),
                  [Reported(2022, fig) EXCEPT !.financials[1].balance =
                      BalanceSheet(fig.layout, Some(20), Some(10), Some(20), fig.std,
                                   fig.ltd, fig.equity)]>>
                \o <<Reported(2021, fig), Reported(2020, fig)>>
          [] t.profile = "series" ->
                [i \in 1..Len(t.oi) |-> SeriesFiling(2024 - i, t.oi[i])]
          [] t.profile = "batch" ->
                [i \in 1..Len(t.kinds) |-> FilingOfKind(2024 - i, t.kinds[i], fig)]
          [] t.profile = "nodf" ->
                <<[Reported(2023, fig) EXCEPT !.financials[1].income =
                      Some([layout |-> "nodf", rows |-> <<>>])]>> \o older
          [] OTHER -> <<>>

\* Company(ticker): what the filing provider knows about the ticker
Company(t) == [exists |-> t.profile # "unknown", filings |-> FilingsOf(t)]

company == Company(ticker)

Tickers ==
    { [profile |-> p, fig |-> StdFigures] :
        p \in {"unknown", "none", "thin", "full", "holes", "skipped", "badcap"} }
    \cup { [profile |-> "same3", fig |-> [StdFigures EXCEPT !.equity = Some(0 - 10)]] }

YearsInputs == 2..MaxYears

\* overrides dicts: none; a negative risk-free rate; all three set
OverridesInputs ==
    { NoOverrides,
      [NoOverrides EXCEPT !.risk_free_rate = Some(Rat(0 - 5, 1000))],
      [risk_free_rate |-> Some(Rat(5, 1000)),
       market_risk_premium |-> Some(Rat(6, 100)),
       beta |-> Some(Rat(12, 10))] }

AdvanceSteps == {60 * TicksPerDay, CACHE_DAYS * TicksPerDay}

\* ----------------------------------------------------------------- actions
NoCall ==
    [op |-> "", years |-> 0, overrides |-> NoOverrides, sensitivity |-> FALSE,
     status |-> "", roic |-> None, wacc |-> None, wacc_result |-> None,
     spread |-> None, roic_cached |-> FALSE, wacc_cached |-> FALSE,
     roic_age |-> None, wacc_age |-> None, loaded |-> None, record_age |-> None,
     statement |-> None, concepts |-> <<>>, value |-> None, failed |-> ""]

\* the file exists and holds a JSON object
IsDict(d) == IsSome(d) /\ ~JsonLoadRaises(Val(d))

\* the age, at this read, of a sub-result served from the cache
ServedAge(cached, stored) == IF cached THEN Some(now - Val(stored)) ELSE None

\* when each sub-result of the record d2 was extracted (after a call that
\* extracted the flagged ones now), when the record was written, and the
\* dict last handed to save_to_cache by the caller
NewStoredAt(d2, roic_fresh, wacc_fresh) ==
    [roic_history |->
        IF ~IsDict(d2) \/ IsNone(Val(d2).roic_history) THEN None
        ELSE IF roic_fresh THEN Some(now) ELSE storedAt.roic_history,
     wacc_components |->
        IF ~IsDict(d2) \/ IsNone(Val(d2).wacc_components) THEN None
        ELSE IF wacc_fresh THEN Some(now) ELSE storedAt.wacc_components,
     record |-> IF d2 # disk THEN Some(now) ELSE storedAt.record,
     data |-> storedAt.data]

NoneStored ==
    [roic_history |-> None, wacc_components |-> None, record |-> None, data |-> None]

Init ==
    /\ now = 0
    /\ ticker \in Tickers
    /\ disk = None
    /\ storedAt = NoneStored
    /\ ret = NoCall

Advance(k) ==
    /\ now + k <= MaxDays * TicksPerDay
    /\ now' = now + k
    /\ UNCHANGED <<ticker, disk, storedAt, ret>>

CallExtractRoic(years, fault) ==
    \E r \in {extract_roic_history(disk, now, company, years, fault)} :
        /\ disk' = r.disk
        /\ storedAt' = NewStoredAt(r.disk, r.status = "ok" /\ ~r.cached, FALSE)
        /\ ret' = [NoCall EXCEPT !.op = "extract_roic_history", !.years = years,
                                 !.status = r.status, !.roic = r.value,
                                 !.failed = r.failed,
                                 !.roic_cached = r.cached,
                                 !.roic_age = ServedAge(r.cached, storedAt.roic_history)]
        /\ UNCHANGED <<now, ticker>>

\* mutant of CallExtractWacc: a call that raises still stamps the record
CallExtractWacc_StampOnError(overrides, fault) ==
    \E w \in {extract_wacc_components(disk, now, company, overrides.risk_free_rate,
                                     overrides.market_risk_premium, overrides.beta,
                                     fault)} :
        /\ disk' = IF w.status # "ok" /\ IsDict(disk)
                   THEN Some([Val(disk) EXCEPT !.cache_date = Some(isoformat(now))])
                   ELSE w.disk
        /\ storedAt' = NewStoredAt(w.disk, FALSE, w.status = "ok" /\ ~w.cached)
        /\ ret' = [NoCall EXCEPT !.op = "extract_wacc_components",
                                 !.overrides = overrides,
                                 !.status = w.status, !.wacc = w.value,
                                 !.failed = w.failed,
                                 !.wacc_cached = w.cached,
                                 !.wacc_age = ServedAge(w.cached, storedAt.wacc_components)]
        /\ UNCHANGED <<now, ticker>>

CallExtractWacc(overrides, fault) ==
    \E w \in {extract_wacc_components(disk, now, company, overrides.risk_free_rate,
                                     overrides.market_risk_premium, overrides.beta,
                                     fault)} :
        /\ disk' = w.disk
        /\ storedAt' = NewStoredAt(w.disk, FALSE, w.status = "ok" /\ ~w.cached)
        /\ ret' = [NoCall EXCEPT !.op = "extract_wacc_components",
                                 !.overrides = overrides,
                                 !.status = w.status, !.wacc = w.value,
                                 !.failed = w.failed,
                                 !.wacc_cached = w.cached,
                                 !.wacc_age = ServedAge(w.cached, storedAt.wacc_components)]
        /\ UNCHANGED <<now, ticker>>

CallCalculateWacc(overrides, sensitivity, fault) ==
    \E w \in {calculate_wacc(disk, now, company, overrides, sensitivity, fault)} :
        /\ disk' = w.disk
        /\ storedAt' = NewStoredAt(w.disk, FALSE, w.status = "ok" /\ ~w.cached)
        /\ ret' = [NoCall EXCEPT !.op = "calculate_wacc",
                                 !.overrides = overrides, !.sensitivity = sensitivity,
                                 !.status = w.status, !.wacc_result = w.value,
                                 !.failed = w.failed,
                                 !.wacc = IF IsSome(w.value)
                                          THEN Some(Val(w.value).components_breakdown)
                                          ELSE None,
                                 !.wacc_cached = w.cached,
                                 !.wacc_age = ServedAge(w.cached, storedAt.wacc_components)]
        /\ UNCHANGED <<now, ticker>>

CallCalculateSpread(years, fault) ==
    \E s \in {calculate_spread(disk, now, company, years, fault)} :
        /\ disk' = s.disk
        /\ storedAt' = NewStoredAt(s.disk, s.wacc_called /\ ~s.roic_cached,
                                   s.status = "ok" /\ ~s.wacc_cached)
        /\ ret' = [NoCall EXCEPT !.op = "calculate_spread", !.years = years,
                                 !.sensitivity = TRUE,
                                 !.status = s.status, !.spread = s.value,
                                 !.failed = s.failed,
                                 !.roic = IF IsSome(s.value)
                                          THEN Some(Val(s.value).roic_data) ELSE None,
                                 !.wacc_result = IF IsSome(s.value)
                                                 THEN Some(Val(s.value).wacc_result)
                                                 ELSE None,
                                 !.roic_cached = s.roic_cached,
                                 !.wacc_cached = s.wacc_cached,
                                 !.roic_age = ServedAge(s.roic_cached, storedAt.roic_history),
                                 !.wacc_age = ServedAge(s.wacc_cached,
                                                        storedAt.wacc_components)]
        /\ UNCHANGED <<now, ticker>>

Next ==
    \/ \E k \in AdvanceSteps : Advance(k)
    \/ \E years \in YearsInputs : CallExtractRoic(years, "none")
    \/ \E overrides \in OverridesInputs : CallExtractWacc(overrides, "none")
    \/ \E overrides \in OverridesInputs, sensitivity \in BOOLEAN :
          CallCalculateWacc(overrides, sensitivity, "none")
    \/ \E years \in YearsInputs : CallCalculateSpread(years, "none")

Spec == Init /\ [][Next]_vars

\* ------------------------------------------- numerical inputs (SpecNum)
TaxInputs == {None, Some(0), Some(0 - 5), Some(15)}
PretaxInputs == {None, Some(0), Some(10), Some(25)}
InterestInputs == {None, Some(0), Some(0 - 2), Some(5)}
ShortDebtInputs == {None, Some(10), Some(0 - 50)}
LongDebtInputs == {None, Some(15)}
EquityInputs == {None, Some(0 - 10), Some(0), Some(40)}

\* three filings that report the same figures, as in the test fixture, and
\* tickers whose latest filing lacks its financials or one of its statements
NumTickers ==
    { [profile |-> "same3",
       fig |-> [tax |-> tax, pretax |-> pretax, interest |-> interest, std |-> std,
                ltd |-> ltd, equity |-> equity, layout |-> "index"]] :
        tax \in TaxInputs, pretax \in PretaxInputs, interest \in InterestInputs,
        std \in ShortDebtInputs, ltd \in LongDebtInputs, equity \in EquityInputs }
    \cup { [profile |-> p, fig |-> [StdFigures EXCEPT !.layout = "index"]] :
             p \in {"none", "nofin", "noincome", "nobalance", "nodf"} }

InitNum ==
    /\ now = 0
    /\ ticker \in NumTickers
    /\ disk = None
    /\ storedAt = NoneStored
    /\ ret = NoCall

NextNum ==
    \/ CallExtractRoic(MIN_YEARS, "none")
    \/ \E overrides \in OverridesInputs : CallExtractWacc(overrides, "none")
    \/ \E overrides \in OverridesInputs, sensitivity \in BOOLEAN :
          CallCalculateWacc(overrides, sensitivity, "none")

SpecNum == InitNum /\ [][NextNum]_vars

\* --------------------------------------------- ROIC series (SpecSpread)
\* operating incomes: of the latest year, its change over two years, of the
\* year between, and of a year before those (if any)
LatestIncomes == {5, 6, 8, 9, 11, 12}
Changes == {0 - 5, 0 - 4, 0, 4, 5}
MiddleIncomes == {1, 30}
OlderIncomes == {<<>>, <<1>>, <<30>>}

SpreadTickers ==
    { [profile |-> "series", fig |-> StdFigures,
       oi |-> <<latest_oi, middle, latest_oi - change>> \o older] :
        latest_oi \in LatestIncomes, change \in Changes, middle \in MiddleIncomes,
        older \in OlderIncomes }

InitSpread ==
    /\ now = 0
    /\ ticker \in SpreadTickers
    /\ disk = None
    /\ storedAt = NoneStored
    /\ ret = NoCall

NextSpread ==
    \/ \E years \in MIN_YEARS..MaxYears : CallExtractRoic(years, "none")
    \/ \E years \in MIN_YEARS..MaxYears : CallCalculateSpread(years, "none")

SpecSpread == InitSpread /\ [][NextSpread]_vars

\* ------------------------------------------- the field extractor (SpecXbrl)
\* the cells of a row, for the first and for the second row of a statement
FirstRowCells ==
    { <<Some(7)>>, <<None>>, <<Text>>, <<Some(7), Some(9)>>, <<None, Some(9)>>,
      <<Some(7), Text>>, <<Text, Some(9)>> }
SecondRowCells ==
    { <<Some(17)>>, <<None>>, <<Text>>, <<Some(17), Some(19)>>, <<None, Some(19)>>,
      <<Some(17), Text>>, <<Text, Some(19)>> }

\* the local names a statement may hold: a canonical name, its alias, another
RowNames == {"CashAndCashEquivalentsAtCarryingValue", "Cash", "Liabilities"}

RowsInputs(layout) ==
    {<<>>}
    \cup { <<[concept |-> NameIn(layout, n), vals |-> v]>> :
             n \in RowNames, v \in FirstRowCells }
    \cup { <<[concept |-> NameIn(layout, nv[1]), vals |-> nv[2]],
             [concept |-> NameIn(layout, nv[3]), vals |-> nv[4]]>> :
             nv \in { x \in RowNames \X FirstRowCells \X RowNames \X SecondRowCells :
                         x[1] # x[3] } }

StatementInputs ==
    {None, Some([layout |-> "nodf", rows |-> <<>>])}
    \cup { Some([layout |-> "concept_col", rows |-> rows]) :
             rows \in RowsInputs("concept_col") }
    \cup { Some([layout |-> "index", rows |-> rows]) : rows \in RowsInputs("index") }

ConceptsInputs == {CashConcepts, Candidates(<<"Cash">>)}

CallExtractXbrlValue(statement, concepts) ==
    /\ ret' = [NoCall EXCEPT !.op = "extract_xbrl_value",
                             !.status = "ok",
                             !.statement = statement, !.concepts = concepts,
                             !.value = extract_xbrl_value(statement, concepts)]
    /\ UNCHANGED <<now, ticker, disk, storedAt>>

InitXbrl ==
    /\ now = 0
    /\ ticker \in {t \in Tickers : t.profile = "full"}
    /\ disk = None
    /\ storedAt = NoneStored
    /\ ret = NoCall

NextXbrl ==
    \E statement \in StatementInputs, concepts \in ConceptsInputs :
        CallExtractXbrlValue(statement, concepts)

SpecXbrl == InitXbrl /\ [][NextXbrl]_vars

\* ------------------------------------------ failing cache writes (SpecFault)
\* filers whose data lets every computation succeed, and one with two filings
FaultTickers == {t \in Tickers : t.profile \in {"full", "holes", "thin"}}

InitFault ==
    /\ now = 0
    /\ ticker \in FaultTickers
    /\ disk = None
    /\ storedAt = NoneStored
    /\ ret = NoCall

NextFault ==
    \/ Advance(CACHE_DAYS * TicksPerDay)
    \/ \E years \in YearsInputs, fault \in Faults : CallExtractRoic(years, fault)
    \/ \E fault \in Faults : CallExtractWacc(NoOverrides, fault)
    \/ \E years \in YearsInputs, fault \in Faults : CallCalculateSpread(years, fault)

SpecFault == InitFault /\ [][NextFault]_vars

\* ------------------------------------- cache files of other origin (SpecForeign)
\* a ROIC history and components as a complete record holds them, and entries
\* that lack fields
StoredRoic ==
    [years |-> <<2021, 2022, 2023>>,
     roic_values |-> <<Rat(18, 100), Rat(19, 100), Rat(20, 100)>>,
     nopat_values |-> <<RInt(18), RInt(19), RInt(20)>>,
     invested_capital_values |-> <<100, 100, 100>>]
PartialRoic ==
    [years |-> <<2021, 2022, 2023>>,
     roic_values |-> <<Rat(18, 100), Rat(19, 100), Rat(20, 100)>>]
PartialWacc == [cost_of_equity |-> Rat(95, 1000)]

\* what the cache file may hold at time t when this subsystem did not write
\* it: invalid JSON, no cache_date, an unparsable cache_date, and fresh
\* records with an entry that lacks fields
ForeignFiles(t) ==
    { Truncated,
      [EmptyDict EXCEPT !.roic_history = Some(StoredRoic)],
      [EmptyDict EXCEPT !.roic_history = Some(StoredRoic), !.cache_date = Some(BadDate)],
      [EmptyDict EXCEPT !.roic_history = Some(PartialRoic),
                        !.cache_date = Some(isoformat(t))],
      [EmptyDict EXCEPT !.wacc_components = Some(PartialWacc),
                        !.cache_date = Some(isoformat(t))] }

ForeignWrite(content) ==
    /\ disk' = Some(content)
    /\ storedAt' = NewStoredAt(Some(content), TRUE, TRUE)
    /\ UNCHANGED <<now, ticker, ret>>

NextForeign ==
    \/ \E content \in ForeignFiles(now) : ForeignWrite(content)
    \/ Advance(CACHE_DAYS * TicksPerDay)
    \/ \E years \in YearsInputs : CallExtractRoic(years, "none")
    \/ \E overrides \in OverridesInputs : CallExtractWacc(overrides, "none")

SpecForeign == InitFault /\ [][NextForeign]_vars

\* ------------------------------------------------ the cache alone (SpecCache)
\* dicts a caller hands to save_to_cache
SaveInputs ==
    { EmptyDict,
      [EmptyDict EXCEPT !.roic_history =
          Some([years |-> <<2021, 2022, 2023>>,
                roic_values |-> <<Rat(18, 100), Rat(19, 100), Rat(20, 100)>>])],
      [EmptyDict EXCEPT !.wacc_components = Some([cost_of_equity |-> Rat(95, 1000)]),
                        !.cache_date = Some(isoformat(0))] }

\* steps around the expiry age
ExpirySteps ==
    {CACHE_DAYS * TicksPerDay - 1, CACHE_DAYS * TicksPerDay, CACHE_DAYS * TicksPerDay + 1}

\* the sub-result entries of a record
SubResults(data) ==
    [roic_history |-> data.roic_history, wacc_components |-> data.wacc_components,
     spread_result |-> data.spread_result]

CallSaveToCache(data) ==
    /\ disk' = save_to_cache(disk, data, now, "none").disk
    /\ storedAt' = [NoneStored EXCEPT !.record = Some(now), !.data = Some(data)]
    /\ ret' = [NoCall EXCEPT !.op = "save_to_cache"]
    /\ UNCHANGED <<now, ticker>>

CallLoadFromCache ==
    /\ ret' = [NoCall EXCEPT !.op = "load_from_cache",
                             !.loaded = load_from_cache(disk, now),
                             !.record_age = IF IsSome(disk)
                                            THEN Some(now - Val(storedAt.record))
                                            ELSE None]
    /\ UNCHANGED <<now, ticker, disk, storedAt>>

NextCache ==
    \/ \E k \in ExpirySteps : Advance(k)
    \/ \E data \in SaveInputs : CallSaveToCache(data)
    \/ CallLoadFromCache

SpecCache == Init /\ [][NextCache]_vars

\* ==================================================================== claims
MaxAge == CACHE_DAYS * TicksPerDay

\* C1: a sub-result (roic_history or wacc_components) is served from the cache
\* only if that sub-result itself was stored no more than 90 days before the
\* read; a sibling's write does not extend its freshness.
C1_SubResultFreshness ==
    /\ IsSome(ret.roic_age) => Val(ret.roic_age) <= MaxAge
    /\ IsSome(ret.wacc_age) => Val(ret.wacc_age) <= MaxAge

\* C2: extract_wacc_components returns components whose risk_free_rate,
\* market_risk_premium and beta equal the supplied overrides (the defaults for
\* the unset ones) and whose cost_of_equity is computed from them, whether or
\* not a fresh cache record exists.
C2_OverridesHonoured ==
    ret.op = "extract_wacc_components" /\ ret.status = "ok" =>
        LET c == Val(ret.wacc)
            rf == OrDefault(ret.overrides.risk_free_rate, DEFAULT_RISK_FREE_RATE)
            mrp == OrDefault(ret.overrides.market_risk_premium,
                             DEFAULT_MARKET_RISK_PREMIUM)
            b == OrDefault(ret.overrides.beta, DEFAULT_BETA)
        IN  /\ c.risk_free_rate = rf
            /\ c.market_risk_premium = mrp
            /\ c.beta = b
            /\ c.cost_of_equity = RAdd(rf, RMul(b, mrp))

\* the years of the N most recent annual filings
RecentYears(co, n) ==
    {co.filings[i].year : i \in 1..Min(n, Len(co.filings))}

\* C3: extract_roic_history(ticker, N) returns at most N yearly records, taken
\* from the N most recent annual filings, after any earlier sequence of calls.
C3_AtMostNYears ==
    ret.op = "extract_roic_history" /\ ret.status = "ok" =>
        LET years == Val(ret.roic).years
        IN  /\ Len(years) <= ret.years
            /\ \A i \in 1..Len(years) : years[i] \in RecentYears(company, ret.years)

\* C4: save_to_cache(ticker, d) followed by load_from_cache(ticker) returns a
\* record with d's sub-result entries whenever the record is at most 90 days
\* old (exactly 90 days included), and None when it is more than 90 days old.
C4_RoundTrip ==
    ret.op = "load_from_cache" /\ IsSome(ret.record_age) =>
        /\ Val(ret.record_age) <= MaxAge =>
              /\ IsSome(ret.loaded)
              /\ SubResults(Val(ret.loaded)) = SubResults(Val(storedAt.data))
        /\ Val(ret.record_age) > MaxAge => IsNone(ret.loaded)

\* the number of filings of the company that pass every check of the loop
ValidYears(co) ==
    Cardinality({i \in 1..Len(co.filings) : IsSome(ProcessFiling(co.filings[i]))})

\* C5: extract_roic_history raises InsufficientDataError, never a plain
\* FinancialDataError, whenever the company exists and its filings leave 0, 1
\* or 2 valid filing-years (no filings at all and all filings skipped included).
C5_InsufficientData ==
    ret.op = "extract_roic_history" /\ company.exists
    /\ ValidYears(company) < MIN_YEARS
        => ret.status = "InsufficientDataError"

C5_Witness ==
    /\ ret.op = "extract_roic_history"
    /\ company.exists
    /\ Len(company.filings) > 0
    /\ ValidYears(company) = 2
    /\ ret.status = "InsufficientDataError"

\* C6: when the company lookup itself fails in extract_roic_history the error
\* is a FinancialDataError that is not an InsufficientDataError.
C6_LookupFailure ==
    ret.op = "extract_roic_history" /\ ~company.exists
        => ret.status = "FinancialDataError"

C6_Witness ==
    /\ ret.op = "extract_roic_history"
    /\ ~company.exists
    /\ ret.status = "FinancialDataError"

\* what the latest annual filing reports, read off the statements
LatestBalance(co) == Val(co.filings[1].financials).balance
LatestIncome(co) == Val(co.filings[1].financials).income
ReportedEquity(co) == extract_xbrl_value(LatestBalance(co), EquityConcepts)
ReportedDebt(co) ==
    OrZero(extract_xbrl_value(LatestBalance(co), WaccShortTermDebtConcepts))
    + OrZero(extract_xbrl_value(LatestBalance(co), LongTermDebtConcepts))

NoStatements(co) ==
    \/ Len(co.filings) = 0
    \/ IsNone(co.filings[1].financials)
    \/ IsNone(LatestIncome(co))
    \/ IsNone(LatestBalance(co))

BadEquity(co) ==
    /\ ~NoStatements(co)
    /\ \/ IsNone(ReportedEquity(co))
       \/ Val(ReportedEquity(co)) <= 0

BadCapital(co) ==
    /\ ~NoStatements(co)
    /\ IsSome(ReportedEquity(co))
    /\ Val(ReportedEquity(co)) + ReportedDebt(co) <= 0

\* C7: extract_wacc_components raises FinancialDataError, and returns no
\* components, whenever there is no fresh cached wacc_components and the latest
\* annual filing is missing, has no financials or statements, has equity
\* missing or <= 0, or has equity + debt <= 0.
C7_HardFailures ==
    ret.op = "extract_wacc_components" /\ ~ret.wacc_cached
    /\ (NoStatements(company) \/ BadEquity(company) \/ BadCapital(company))
        => ret.status = "FinancialDataError" /\ IsNone(ret.wacc)

C7_Witness ==
    /\ ret.op = "extract_wacc_components"
    /\ ~NoStatements(company)
    /\ IsSome(ReportedEquity(company))
    /\ Val(ReportedEquity(company)) <= 0
    /\ ret.status = "FinancialDataError"

\* C8: every WACCComponents returned by extract_wacc_components has
\* equity_ratio + debt_ratio = 1, equity_ratio = E / (E + D) and
\* debt_ratio = D / (E + D); a debt-free company gets 0 and 1.
C8_RatiosSumToOne ==
    ret.op = "extract_wacc_components" /\ ret.status = "ok" =>
        LET c == Val(ret.wacc)
            v == RAdd(c.total_equity, c.total_debt)
        IN  /\ RAdd(c.equity_ratio, c.debt_ratio) = RInt(1)
            /\ RMul(c.equity_ratio, v) = c.total_equity
            /\ RMul(c.debt_ratio, v) = c.total_debt
            /\ c.total_debt = RInt(0) =>
                  c.debt_ratio = RInt(0) /\ c.equity_ratio = RInt(1)

C8_Witness ==
    /\ ret.op = "extract_wacc_components"
    /\ ret.status = "ok"
    /\ Val(ret.wacc).total_debt = RInt(0)
    /\ Val(ret.wacc).equity_ratio = RInt(1)

\* the raw ratios of a filing, None where the code does not compute one
RawTaxRate(income_stmt) ==
    LET tax == extract_xbrl_value(income_stmt, IncomeTaxConcepts)
        pretax == extract_xbrl_value(income_stmt, PretaxConcepts)
    IN  IF IsSome(tax) /\ IsSome(pretax) /\ Val(tax) # 0 /\ Val(pretax) # 0
        THEN Some(RAbs(Rat(Val(tax), Val(pretax))))
        ELSE None

RawCostOfDebt(co) ==
    LET interest == extract_xbrl_value(LatestIncome(co), InterestConcepts)
    IN  IF IsSome(interest) /\ Val(interest) # 0 /\ ReportedDebt(co) > 0
        THEN Some(Rat(Abs(Val(interest)), ReportedDebt(co)))
        ELSE None

InRange(x, hi) == RLe(RInt(0), x) /\ RLe(x, hi)

FilingOfYear(co, y) ==
    CHOOSE f \in {co.filings[j] : j \in 1..Len(co.filings)} : f.year = y

\* the tax rate behind the i-th record of a ROIC history: 1 - nopat / oi
ImpliedTaxRate(co, roic, i) ==
    LET f == FilingOfYear(co, roic.years[i])
        oi == extract_xbrl_value(Val(f.financials).income, OperatingIncomeConcepts)
    IN  RSub(RInt(1), RDiv(roic.nopat_values[i], RInt(Val(oi))))

\* C9: every cost_of_debt lies in [0, 0.20] and every tax_rate in [0, 0.5]; a
\* raw ratio outside its range is replaced by the default (0.05, 0.21), never
\* by the range boundary.
C9_SanityBounds ==
    /\ ret.op = "extract_wacc_components" /\ ret.status = "ok" =>
          LET c == Val(ret.wacc)
              raw_cod == RawCostOfDebt(company)
              raw_tax == RawTaxRate(LatestIncome(company))
          IN  /\ InRange(c.cost_of_debt, MAX_COST_OF_DEBT)
              /\ InRange(c.tax_rate, MAX_TAX_RATE)
              /\ IsSome(raw_cod) /\ ~InRange(Val(raw_cod), MAX_COST_OF_DEBT)
                    => c.cost_of_debt = DEFAULT_COST_OF_DEBT
              /\ IsSome(raw_tax) /\ ~InRange(Val(raw_tax), MAX_TAX_RATE)
                    => c.tax_rate = DEFAULT_TAX_RATE
    /\ ret.op = "extract_roic_history" /\ ret.status = "ok" =>
          \A i \in 1..Len(Val(ret.roic).years) :
              LET tax_rate == ImpliedTaxRate(company, Val(ret.roic), i)
                  f == FilingOfYear(company, Val(ret.roic).years[i])
                  raw_tax == RawTaxRate(Val(f.financials).income)
              IN  /\ InRange(tax_rate, MAX_TAX_RATE)
                  /\ IsSome(raw_tax) /\ ~InRange(Val(raw_tax), MAX_TAX_RATE)
                        => tax_rate = DEFAULT_TAX_RATE

C9_Witness ==
    /\ ret.op = "extract_wacc_components"
    /\ ret.status = "ok"
    /\ IsSome(RawCostOfDebt(company))
    /\ RLt(MAX_COST_OF_DEBT, Val(RawCostOfDebt(company)))
    /\ Val(ret.wacc).cost_of_debt = DEFAULT_COST_OF_DEBT

\* C10: for every result of calculate_wacc with sensitivity whose components
\* have beta >= 0 and market_risk_premium >= 0 (any risk_free_rate),
\* pessimistic >= base >= optimistic.
C10_ScenarioOrder ==
    ret.op = "calculate_wacc" /\ ret.sensitivity /\ ret.status = "ok"
    /\ RLe(RInt(0), Val(ret.wacc).beta)
    /\ RLe(RInt(0), Val(ret.wacc).market_risk_premium)
        => LET sc == Val(ret.wacc_result).scenarios
           IN  /\ RLe(Val(sc.base), Val(sc.pessimistic))
               /\ RLe(Val(sc.optimistic), Val(sc.base))

\* C11: calculate_wacc returns baseline_wacc = equity_ratio * cost_of_equity
\* + debt_ratio * cost_of_debt * (1 - tax_rate) for the components it obtained
\* from extract_wacc_components.
C11_BaselineFormula ==
    ret.op = "calculate_wacc" /\ ret.status = "ok" =>
        LET c == Val(ret.wacc_result).components_breakdown
        IN  Val(ret.wacc_result).baseline_wacc =
                RAdd(RMul(c.equity_ratio, c.cost_of_equity),
                     RMul(RMul(c.debt_ratio, c.cost_of_debt),
                          RSub(RInt(1), c.tax_rate)))

C11_Witness ==
    /\ ret.op = "calculate_wacc"
    /\ ret.status = "ok"
    /\ RLt(RInt(0), Val(ret.wacc_result).components_breakdown.debt_ratio)
    /\ Val(ret.wacc_result).components_breakdown.cost_of_debt # DEFAULT_COST_OF_DEBT
    /\ Val(ret.wacc_result).components_breakdown.tax_rate # DEFAULT_TAX_RATE

\* C12: the scenarios mapping returned by calculate_wacc always contains
\* 'base', equal to baseline_wacc, and contains 'pessimistic' and 'optimistic'
\* if and only if sensitivity was requested.
C12_ScenarioKeys ==
    ret.op = "calculate_wacc" /\ ret.status = "ok" =>
        LET sc == Val(ret.wacc_result).scenarios
        IN  /\ sc.base = Some(Val(ret.wacc_result).baseline_wacc)
            /\ IsSome(sc.pessimistic) <=> ret.sensitivity
            /\ IsSome(sc.optimistic) <=> ret.sensitivity

C12_Witness ==
    /\ ret.op = "calculate_wacc"
    /\ ret.status = "ok"
    /\ ~ret.sensitivity
    /\ IsSome(Val(ret.wacc_result).scenarios.base)
    /\ IsNone(Val(ret.wacc_result).scenarios.pessimistic)
    /\ IsNone(Val(ret.wacc_result).scenarios.optimistic)

\* C13: in every SpreadResult returned by calculate_spread, spread_history has
\* the length of years and of roic_data.roic_values, spread_history[i] =
\* roic_values[i] - wacc_result.baseline_wacc for every i, and current_spread
\* is the last element of spread_history.
C13_SpreadHistory ==
    ret.op = "calculate_spread" /\ ret.status = "ok" =>
        LET s == Val(ret.spread)
            n == Len(s.spread_history)
        IN  /\ n = Len(s.years)
            /\ n = Len(s.roic_data.roic_values)
            /\ \A i \in 1..n :
                  s.spread_history[i] =
                      RSub(s.roic_data.roic_values[i], s.wacc_result.baseline_wacc)
            /\ n > 0
            /\ s.current_spread = s.spread_history[n]

C13_Witness ==
    /\ ret.op = "calculate_spread"
    /\ ret.status = "ok"
    /\ Len(Val(ret.spread).spread_history) = 4
    /\ Val(ret.spread).spread_history[1] # Val(ret.spread).spread_history[4]
    /\ Val(ret.spread).current_spread = Val(ret.spread).spread_history[4]

\* the slope over the three most recent spreads: (s2 - s0) / 2
SlopeOfLastThree(h) == RDiv(RSub(h[Len(h)], h[Len(h) - 2]), RInt(2))

C15_Durability ==
    ret.op = "calculate_spread" /\ ret.status = "ok" =>
        LET s == Val(ret.spread)
            strong == RLt(Rat(5, 100), s.current_spread) /\ s.spread_trend = "improving"
            weak == \/ RLt(s.current_spread, RInt(0))
                    \/ /\ s.spread_trend = "deteriorating"
                       /\ RLt(s.current_spread, Rat(3, 100))
        IN  /\ s.durability_assessment = "strong" <=> strong
            /\ s.durability_assessment = "weak" <=> ~strong /\ weak
            /\ s.durability_assessment = "uncertain" <=> ~strong /\ ~weak
            /\ RLt(s.current_spread, RInt(0)) => s.durability_assessment = "weak"

C15_Witness ==
    /\ ret.op = "calculate_spread"
    /\ ret.status = "ok"
    /\ RLt(Val(ret.spread).current_spread, RInt(0))
    /\ Val(ret.spread).spread_trend = "improving"
    /\ Val(ret.spread).durability_assessment = "weak"

\* C16: every ROICData returned by extract_roic_history, fresh or served from
\* a cache record this subsystem wrote, has at least 3 records, four parallel
\* lists of equal length, years in ascending order, every invested_capital
\* value > 0, and roic_values[i] = nopat_values[i] / invested_capital_values[i].
C16_RoicDataShape ==
    ret.op = "extract_roic_history" /\ ret.status = "ok" =>
        LET r == Val(ret.roic)
            n == Len(r.years)
        IN  /\ n >= 3
            /\ Len(r.roic_values) = n
            /\ Len(r.nopat_values) = n
            /\ Len(r.invested_capital_values) = n
            /\ \A i \in 1..(n - 1) : r.years[i] <= r.years[i + 1]
            /\ \A i \in 1..n :
                  /\ r.invested_capital_values[i] > 0
                  /\ r.roic_values[i] =
                        RDiv(r.nopat_values[i], RInt(r.invested_capital_values[i]))

C16_Witness ==
    /\ ret.op = "extract_roic_history"
    /\ ret.status = "ok"
    /\ ret.roic_cached
    /\ ticker.profile = "badcap"
    /\ Val(ret.roic).years = <<2020, 2021, 2023>>

\* the cells a statement holds for a candidate concept
CellsOf(df, c) ==
    UNION { {df.rows[k].vals[j] : j \in 1..Len(df.rows[k].vals)} :
              k \in { k \in 1..Len(df.rows) :
                        NormalizeConcept(df.rows[k].concept) = NormalizeConcept(c) } }

\* the numbers a statement holds for a candidate concept
NumbersOf(df, c) == { Val(cell) : cell \in {x \in CellsOf(df, c) : IsSome(x)} }

\* the positions of the candidates present with a numeric value
Holding(df, concepts) ==
    {i \in 1..Len(concepts) : NumbersOf(df, concepts[i]) # {}}

\* C17: extract_xbrl_value(statement, candidates) returns the numeric value of
\* the first candidate, in list order, that is present in the statement with a
\* numeric value (a later alias included); it returns None when the statement
\* is None, empty or holds no candidate; it never raises.
C17_FirstCandidate ==
    ret.op = "extract_xbrl_value" =>
        /\ ret.status = "ok"
        /\ IF IsNone(ret.statement) THEN IsNone(ret.value)
           ELSE LET df == Val(ret.statement)
                    holding == Holding(df, ret.concepts)
                    first == CHOOSE i \in holding : \A j \in holding : i <= j
                IN  IF holding = {} THEN IsNone(ret.value)
                    ELSE /\ IsSome(ret.value)
                         /\ Val(ret.value) \in NumbersOf(df, ret.concepts[first])

\* the latest filing lets extract_wacc_components compute its result
WaccComputable(co) ==
    co.exists /\ ~NoStatements(co) /\ ~BadEquity(co) /\ ~BadCapital(co)

\* C18: whenever persisting the cache fails at any step of save_to_cache
\* (creating the data directory, opening the file, writing the JSON),
\* extract_roic_history, extract_wacc_components and calculate_spread still
\* return the result they computed instead of raising.
C18_WriteFailureTolerated ==
    ( /\ ret.op \in {"extract_roic_history", "extract_wacc_components",
                      "calculate_spread"}
      /\ ret.failed # ""
      /\ WaccComputable(company) )
        => ret.status = "ok"

\* an entry of a readable record that lacks fields of its type
LacksFields(d, key) ==
    /\ IsSome(Val(d)[key])
    /\ IF key = "roic_history"
       THEN ~(RoicFields \subseteq DOMAIN Val(Val(d)[key]))
       ELSE DOMAIN Val(Val(d)[key]) # WaccFields

\* the cache file cannot serve the entry `key` at time t: it is missing, not
\* JSON, has no or an unparsable cache_date, or is fresh and readable with an
\* entry that lacks fields
Unusable(d, t, key) ==
    \/ IsNone(d)
    \/ JsonLoadRaises(Val(d))
    \/ IsNone(Val(d).cache_date)
    \/ "date" \notin DOMAIN Val(Val(d).cache_date)
    \/ /\ (t - fromisoformat(Val(Val(d).cache_date))) \div TicksPerDay < 90
       /\ LacksFields(d, key)

Recomputed(status, cached) ==
    /\ status \in {"ok", "FinancialDataError", "InsufficientDataError"}
    /\ ~cached

\* C19: a cache record that cannot be used (missing file, invalid JSON,
\* missing or unparsable cache_date, or a fresh readable record whose
\* roic_history or wacc_components entry lacks required fields) is treated as
\* a cache miss and recomputed; extract_roic_history and
\* extract_wacc_components raise nothing other than FinancialDataError or
\* InsufficientDataError.
C19_UnusableCacheIsMiss ==
    [][ /\ \A years \in YearsInputs :
              CallExtractRoic(years, "none") /\ Unusable(disk, now, "roic_history")
                  => Recomputed(ret'.status, ret'.roic_cached)
        /\ \A overrides \in OverridesInputs :
              CallExtractWacc(overrides, "none") /\ Unusable(disk, now, "wacc_components")
                  => Recomputed(ret'.status, ret'.wacc_cached) ]_vars

\* the sub-result keys of a cache record
SubResultKeys == {"roic_history", "wacc_components", "spread_result"}

\* the key a call writes last
WrittenBy(op) ==
    CASE op = "extract_roic_history" -> "roic_history"
      [] op = "calculate_spread" -> "spread_result"
      [] OTHER -> "wacc_components"

\* C20: when extract_roic_history, extract_wacc_components or calculate_spread
\* writes its sub-result into the ticker's cache record, every other
\* sub-result key present in the fresh record before the write is still
\* present afterwards with identical content.
C20_SiblingsKept ==
    [][ ( /\ disk' # disk
          /\ IsSome(disk)
          /\ (now - fromisoformat(Val(Val(disk).cache_date))) \div TicksPerDay < 90 )
            => \A key \in SubResultKeys \ {WrittenBy(ret'.op)} :
                  IsSome(Val(disk)[key]) => Val(disk')[key] = Val(disk)[key] ]_vars

C20_Witness ==
    /\ ret.op = "extract_wacc_components"
    /\ ret.status = "ok"
    /\ ~ret.wacc_cached
    /\ IsSome(disk)
    /\ IsSome(Val(disk).roic_history)
    /\ Val(storedAt.roic_history) < Val(storedAt.wacc_components)

\* ------------------------------------- the pipeline's task 4 (SpecPipeline)
\* calculate_spread(ticker): years defaults to 5
DEFAULT_YEARS == 5

\* the monitored stocks: load_tickers_config returns distinct tickers
MaxTickers == 3
PipelineTickers ==
    {t \in Tickers : t.profile \in {"full", "holes", "thin", "unknown", "same3"}}
Distinct(s) == \A i, j \in 1..Len(s) : i # j => s[i] # s[j]
TickerLists ==
    UNION { {s \in [1..n -> PipelineTickers] : Distinct(s)} : n \in 0..MaxTickers }

\* the locals of analyze_financials: the list, the number of loop rounds
\* done, the counters, the tickers handed to calculate_spread with the
\* outcome of each call, and the value returned once the function has ended
StartPipeline(tickers) ==
    [op |-> "analyze_financials", tickers |-> tickers, rounds |-> 0,
     successful |-> 0, failed |-> 0, processed |-> <<>>, statuses |-> <<>>,
     returned |-> None]

\* one round of the loop body on the outcome of calculate_spread(ticker): both
\* except clauses count the ticker as failed and the loop goes on
analyze_ticker_AbortOnFailure(p, t, status) ==
    [p EXCEPT !.rounds = @ + 1,
              !.processed = Append(@, t),
              !.statuses = Append(@, status),
              !.successful = IF status = "ok" THEN @ + 1 ELSE @,
              !.failed = IF status = "ok" THEN @ ELSE @ + 1,
              !.returned = IF status = "ok" THEN @ ELSE Some(FALSE)]

analyze_ticker(p, t, status) ==
    [p EXCEPT !.rounds = @ + 1,
              !.processed = Append(@, t),
              !.statuses = Append(@, status),
              !.successful = IF status = "ok" THEN @ + 1 ELSE @,
              !.failed = IF status \in {"FinancialDataError", "InsufficientDataError"}
                            THEN @ + 1
                         ELSE IF status # "ok" THEN @ + 1
                         ELSE @]

\* the loop takes the next ticker; its cache file is its own and absent
AnalyzeTicker(fault) ==
    /\ ret.op = "analyze_financials"
    /\ IsNone(ret.returned)
    /\ ret.rounds < Len(ret.tickers)
    /\ \E s \in {calculate_spread(None, now, Company(ret.tickers[ret.rounds + 1]),
                                  DEFAULT_YEARS, fault)} :
          /\ ticker' = ret.tickers[ret.rounds + 1]
          /\ disk' = s.disk
          /\ ret' = analyze_ticker(ret, ret.tickers[ret.rounds + 1], s.status)
    /\ UNCHANGED <<now, storedAt>>

\* after the loop: return successful > 0
ReturnFromAnalyze ==
    /\ ret.op = "analyze_financials"
    /\ IsNone(ret.returned)
    /\ ret.rounds = Len(ret.tickers)
    /\ ret' = [ret EXCEPT !.returned = Some(ret.successful > 0)]
    /\ UNCHANGED <<now, ticker, disk, storedAt>>

InitPipeline ==
    /\ now = 0
    /\ ticker = [profile |-> "unknown", fig |-> StdFigures]
    /\ disk = None
    /\ storedAt = NoneStored
    /\ ret \in {StartPipeline(tickers) : tickers \in TickerLists}

NextPipeline ==
    \/ \E fault \in Faults : AnalyzeTicker(fault)
    \/ ReturnFromAnalyze

SpecPipeline == InitPipeline /\ [][NextPipeline]_vars

\* the function has returned
Returned == ret.op = "analyze_financials" /\ IsSome(ret.returned)

\* C21: analyze_financials processes every ticker of the list exactly once and
\* in order, whatever exception calculate_spread raises for a ticker;
\* successful + failed equals the number of tickers, and the function returns
\* true exactly when at least one ticker succeeded.
C21_EveryTickerProcessed ==
    ret.op = "analyze_financials" =>
        /\ ret.processed = SubSeq(ret.tickers, 1, ret.rounds)
        /\ ret.successful + ret.failed = ret.rounds
        /\ Returned =>
              /\ ret.processed = ret.tickers
              /\ ret.successful + ret.failed = Len(ret.tickers)
              /\ Val(ret.returned) =
                    (\E i \in 1..Len(ret.statuses) : ret.statuses[i] = "ok")

\* a failure in the middle of the list, a success after it
C21_Witness ==
    /\ Returned
    /\ Len(ret.tickers) = 3
    /\ ret.statuses[1] = "ok"
    /\ ret.statuses[2] = "FinancialDataError"
    /\ ret.statuses[3] = "ok"
    /\ Val(ret.returned)

\* the tax rate as stated: |tax_expense / pretax_income| when both are
\* present, pretax income is not zero and the ratio lies in [0, 0.5]; 0.21
\* otherwise
StatedTaxRate(income_stmt) ==
    LET Stated(tax, pretax) ==
            IF IsSome(tax) /\ IsSome(pretax) /\ Val(pretax) # 0
                 /\ InRange(RAbs(Rat(Val(tax), Val(pretax))), MAX_TAX_RATE)
            THEN RAbs(Rat(Val(tax), Val(pretax)))
            ELSE DEFAULT_TAX_RATE
    IN  Stated(extract_xbrl_value(income_stmt, IncomeTaxConcepts),
               extract_xbrl_value(income_stmt, PretaxConcepts))

\* C22: in extract_roic_history and extract_wacc_components, tax_rate equals
\* |tax_expense / pretax_income| whenever tax expense is present (a reported 0
\* included, giving rate 0), pretax income is present and non-zero and the
\* ratio lies in [0, 0.5]; it is 0.21 only otherwise.
C22_TaxRate ==
    /\ ret.op = "extract_wacc_components" /\ ret.status = "ok" /\ ~ret.wacc_cached =>
          Val(ret.wacc).tax_rate = StatedTaxRate(LatestIncome(company))
    /\ ret.op = "extract_roic_history" /\ ret.status = "ok" /\ ~ret.roic_cached =>
          \A i \in 1..Len(Val(ret.roic).years) :
              ImpliedTaxRate(company, Val(ret.roic), i)
                = StatedTaxRate(Val(FilingOfYear(company,
                                                 Val(ret.roic).years[i]).financials).income)

\* the cost of debt as stated: |interest_expense| / total_debt when debt is
\* positive, interest expense is present and the ratio lies in [0, 0.20]; 5%
\* otherwise
StatedCostOfDebt(co) ==
    LET Stated(interest, total_debt) ==
            IF IsSome(interest) /\ total_debt > 0
                 /\ InRange(Rat(Abs(Val(interest)), total_debt), MAX_COST_OF_DEBT)
            THEN Rat(Abs(Val(interest)), total_debt)
            ELSE DEFAULT_COST_OF_DEBT
    IN  Stated(extract_xbrl_value(LatestIncome(co), InterestConcepts), ReportedDebt(co))

\* C23: in extract_wacc_components, cost_of_debt equals
\* |interest_expense| / total_debt whenever total_debt > 0, interest expense is
\* present (a reported 0 included, giving cost 0) and the ratio lies in
\* [0, 0.20]; it is the 5% default only otherwise.
C23_CostOfDebt ==
    ret.op = "extract_wacc_components" /\ ret.status = "ok" /\ ~ret.wacc_cached =>
        Val(ret.wacc).cost_of_debt = StatedCostOfDebt(company)

\* C24: every WACCComponents returned by extract_wacc_components has
\* 0 <= debt_ratio < 1, 0 < equity_ratio <= 1 and total_debt >= 0, whatever
\* debt and equity figures are reported.
C24_NonNegativeWeights ==
    ret.op = "extract_wacc_components" /\ ret.status = "ok" =>
        LET c == Val(ret.wacc)
        IN  /\ RLe(RInt(0), c.debt_ratio) /\ RLt(c.debt_ratio, RInt(1))
            /\ RLt(RInt(0), c.equity_ratio) /\ RLe(c.equity_ratio, RInt(1))
            /\ RLe(RInt(0), c.total_debt)

\* C25: when calculate_spread fails because ROIC extraction found fewer than 3
\* usable fiscal years, the error that reaches the caller is an
\* InsufficientDataError, so the caller can tell it apart from other
\* financial-data failures.
C25_InsufficientDataIdentifiable ==
    ( /\ ret.op = "calculate_spread"
      /\ ret.status # "ok"
      /\ company.exists
      /\ ValidYears(company) < MIN_YEARS )
        => ret.status = "InsufficientDataError"

\* ----------------------- time that passes without bound (SpecElapse, SpecLive)
\* The code reads the clock only to compare it with a record's cache_date
\* (days_old < 90), so the clock is kept at Epoch and the passing of k ticks
\* moves the record's cache_date k ticks back instead; a record that is no
\* longer recent stays so, and its cache_date is held at the age of 90 days.
Epoch == CACHE_DAYS * TicksPerDay

Aged(d, k) ==
    IF ~IsDict(d) THEN d
    ELSE IF IsNone(Val(d).cache_date) \/ FromIsoformatRaises(Val(d).cache_date) THEN d
    ELSE LET Back(t) == IF t - k < 0 THEN 0 ELSE t - k
         IN  Some([Val(d) EXCEPT
                     !.cache_date = Some(isoformat(Back(fromisoformat(Val(@)))))])

\* ticks that pass between the cache reads of one calculate_spread call
WaitInputs == 0..1

\* the time between calls
ElapseSteps == {1, 60 * TicksPerDay, CACHE_DAYS * TicksPerDay - 1}

\* storedAt records which sub-results the record holds; the ages it would
\* give are not followed here
Elapse(k) ==
    /\ disk' = Aged(disk, k)
    /\ UNCHANGED <<now, ticker, storedAt, ret>>

\* calculate_spread reading the clock at now, wait_wacc ticks later and
\* wait_spread ticks after that
CallCalculateSpreadTimed(years, wait_wacc, wait_spread) ==
    /\ \E s \in {calculate_spread_timed(disk, now, now + wait_wacc,
                                        now + wait_wacc + wait_spread,
                                        company, years, "none")} :
          /\ disk' = Aged(s.disk, wait_wacc + wait_spread)
          /\ storedAt' = NewStoredAt(s.disk, s.wacc_called /\ ~s.roic_cached,
                                     s.status = "ok" /\ ~s.wacc_cached)
          /\ ret' = [NoCall EXCEPT !.op = "calculate_spread", !.years = years,
                                   !.sensitivity = TRUE,
                                   !.status = s.status, !.spread = s.value,
                                   !.failed = s.failed,
                                   !.roic_cached = s.roic_cached,
                                   !.wacc_cached = s.wacc_cached]
    /\ UNCHANGED <<now, ticker>>

ElapseTickers == {t \in Tickers : t.profile \in {"full", "holes"}}

InitElapse ==
    /\ now = Epoch
    /\ ticker \in ElapseTickers
    /\ disk = None
    /\ storedAt = NoneStored
    /\ ret = NoCall

SpreadCalls ==
    \E years \in MIN_YEARS..MaxYears, wait_wacc \in WaitInputs, wait_spread \in WaitInputs :
        CallCalculateSpreadTimed(years, wait_wacc, wait_spread)

TimePasses == \E k \in ElapseSteps : Elapse(k)

NextElapse ==
    \/ TimePasses
    \/ SpreadCalls
    \/ \E years \in MIN_YEARS..MaxYears : CallExtractRoic(years, "none")

SpecElapse == InitElapse /\ [][NextElapse]_vars

\* one caller that does nothing but call calculate_spread, again and again
\* without end, while time keeps passing
NextLive ==
    \/ TimePasses
    \/ SpreadCalls

SpecLive ==
    /\ InitElapse
    /\ [][NextLive]_vars
    /\ WF_vars(TimePasses)
    /\ []<><<SpreadCalls>>_vars

\* C26: after a calculate_spread call that returns successfully with the cache
\* writes succeeding, the ticker's cache record contains roic_history,
\* wacc_components, spread_result, cache_date and ticker, and its roic_history
\* and wacc_components equal those embedded in the returned SpreadResult,
\* whatever the record held before the call and however time advances between
\* the call's cache reads.
C26_RecordComplete ==
    ( /\ ret.op = "calculate_spread"
      /\ ret.status = "ok"
      /\ ret.failed = "" )
        => /\ IsDict(disk)
           /\ IsSome(Val(disk).cache_date)
           /\ IsSome(Val(disk).ticker)
           /\ IsSome(Val(disk).spread_result)
           /\ Val(disk).roic_history = Some(Val(ret.spread).roic_data)
           /\ Val(disk).wacc_components
                = Some(Val(ret.spread).wacc_result.components_breakdown)

\* C29: if calculate_spread is called on a ticker again and again without end
\* while time keeps advancing, roic_history and wacc_components are re-extracted
\* from filings again and again: no cached sub-result is served forever, even
\* when consecutive calls are less than 90 days apart.
C29_EventuallyReExtracted ==
    /\ []<>(ret.op = "calculate_spread" /\ ret.status = "ok" /\ ~ret.roic_cached)
    /\ []<>(ret.op = "calculate_spread" /\ ret.status = "ok" /\ ~ret.wacc_cached)

\* ------------------------------------ batches of filings (SpecFilings)
\* a filer whose MaxYears most recent filings are of any kinds
BatchTickers ==
    { [profile |-> "batch", fig |-> StdFigures, kinds |-> kinds] :
        kinds \in [1..MaxYears -> FilingKinds] }

InitFilings ==
    /\ now = 0
    /\ ticker \in BatchTickers
    /\ disk = None
    /\ storedAt = NoneStored
    /\ ret = NoCall

NextFilings == \E years \in MIN_YEARS..MaxYears : CallExtractRoic(years, "none")

SpecFilings == InitFilings /\ [][NextFilings]_vars

\* a filing that passes all checks: it loads, has financials and both
\* statements, reports operating income and total assets, and has
\* invested capital above 0
Usable(filing) ==
    IF ObjRaises(filing) \/ IsNone(filing.financials) THEN FALSE
    ELSE IF IsNone(Val(filing.financials).income) THEN FALSE
    ELSE IF IsNone(Val(filing.financials).balance) THEN FALSE
    ELSE /\ IsSome(extract_xbrl_value(Val(filing.financials).income,
                                      OperatingIncomeConcepts))
         /\ IsSome(extract_xbrl_value(Val(filing.financials).balance, AssetsConcepts))
         /\ Val(InvestedCapital(Val(filing.financials).balance)) > 0

UsableYears(filings) == {filings[i].year : i \in {j \in 1..Len(filings) : Usable(filings[j])}}

\* C27: in extract_roic_history a filing that has no financials, lacks a
\* statement, lacks operating income or total assets, has invested capital
\* <= 0, or raises while being processed is skipped without aborting: the
\* other filings of the batch are still processed, and the result has exactly
\* one record for each filing that passed all checks.
C27_SkipAndContinue ==
    ( /\ ret.op = "extract_roic_history"
      /\ ~ret.roic_cached
      /\ company.exists
      /\ Cardinality(UsableYears(latest(company, ret.years))) >= MIN_YEARS )
        => /\ ret.status = "ok"
           /\ Len(Val(ret.roic).years)
                = Cardinality(UsableYears(latest(company, ret.years)))
           /\ {Val(ret.roic).years[i] : i \in 1..Len(Val(ret.roic).years)}
                = UsableYears(latest(company, ret.years))

\* a filing that raises between usable ones
C27_Witness ==
    /\ ret.op = "extract_roic_history"
    /\ ret.status = "ok"
    /\ ~ret.roic_cached
    /\ ret.years = 4
    /\ ticker.profile = "batch"
    /\ ticker.kinds[1] = "ok"
    /\ ticker.kinds[2] = "raises"
    /\ ticker.kinds[3] = "ok"
    /\ ticker.kinds[4] = "ok"
    /\ Len(Val(ret.roic).years) = 3

\* C28: a call to extract_roic_history or extract_wacc_components that raises
\* an error leaves the ticker's persisted cache record exactly as it was before
\* the call.
C28_RaisingCallKeepsRecord ==
    [][ ( /\ ret'.op \in {"extract_roic_history", "extract_wacc_components"}
          /\ ret'.status # "ok" )
            => disk' = disk ]_vars

\* a raising call on a ticker that has a record
C28_Witness ==
    /\ ret.op = "extract_wacc_components"
    /\ ret.status = "FinancialDataError"
    /\ IsSome(disk)
    /\ IsSome(Val(disk).roic_history)

\* the two conditions as stated, and the assessment with 'weak' tested first
StrongCondition(current_spread, trend) ==
    RLt(Rat(5, 100), current_spread) /\ trend = "improving"

WeakCondition(current_spread, trend) ==
    \/ RLt(current_spread, RInt(0))
    \/ trend = "deteriorating" /\ RLt(current_spread, Rat(3, 100))

WeakFirst(current_spread, trend) ==
    IF WeakCondition(current_spread, trend) THEN "weak"
    ELSE IF StrongCondition(current_spread, trend) THEN "strong"
    ELSE "uncertain"

\* C30: no pair of current_spread and trend satisfies both the 'strong' and
\* the 'weak' condition, so the durability computed by calculate_spread is the
\* same whichever of the two conditions is evaluated first.
C30_StrongWeakDisjoint ==
    ret.op = "calculate_spread" /\ ret.status = "ok" =>
        LET s == Val(ret.spread)
        IN  /\ ~(StrongCondition(s.current_spread, s.spread_trend)
                 /\ WeakCondition(s.current_spread, s.spread_trend))
            /\ s.durability_assessment = WeakFirst(s.current_spread, s.spread_trend)

\* an improving but negative spread: weak under either order
C30_Witness ==
    /\ ret.op = "calculate_spread"
    /\ ret.status = "ok"
    /\ Val(ret.spread).spread_trend = "improving"
    /\ RLt(Val(ret.spread).current_spread, RInt(0))
    /\ Val(ret.spread).durability_assessment = "weak"

====
